---- MODULE Spec2Model ----
(***************************************************************************)
(* Towers of Hanoi page (packages/app/src/pages/index.tsx).                *)
(*                                                                         *)
(* The component's React state is the record `ui`; the autoTimer ref, the  *)
(* pending auto-solve timeouts and the pending shake timeouts are the rest *)
(* of the world.  Every event handler is a function from the world before  *)
(* the event to the world after the re-render that follows it.  A handler  *)
(* reads the state of the render that created it: for clicks and keys that *)
(* is the current render, for the auto-solve timeout it is the render in   *)
(* which startAutoSolve ran, whose `towers` the callback's moveDisk and    *)
(* canDrop keep reading (the closure).  Functional updates (setX(f))       *)
(* apply to the current state, value updates (setX(v)) overwrite it.       *)
(***************************************************************************)
EXTENDS Integers, Sequences, FiniteSets, TLC

VARIABLES ui, autoTimer, timers, shakeTimers, last, events, gen

vars == <<ui, autoTimer, timers, shakeTimers, last, events, gen>>

(* ---------------- constants of the source ---------------- *)

MIN_DISKS == 3
MAX_DISKS == 7

\* null (selectedTower, shakeTower, autoTimer.current)
NULL == -1

\* what at(-1) gives on an empty tower; falsy, like a disk 0 would be
Undefined == 0

Pegs == 0 .. 2

(* ---------------- bounds of the model ---------------- *)

\* number of events (handler and timeout runs) a behaviour of Spec is followed for
MaxEvents == 9
\* pending shake timeouts told apart (more than this many count as this many)
MaxShake == 1
\* longest undo history a behaviour of SpecLong builds
MaxLongHistory == 1
\* longest undo history a behaviour of SpecPlay builds
MaxPlayHistory == 7
\* longest redo stack a behaviour of SpecPlay builds
MaxPlayUndo == 1
\* number of inputs (clicks, keys, slider moves) a behaviour of SpecLive is given
MaxLiveInputs == 2
\* largest n generateMoves is run on under SpecGen
MaxGenN == 5

(* ---------------- pure helpers ---------------- *)

Pow2(n) == 2 ^ n

Min(a, b) == IF a < b THEN a ELSE b

Max(a, b) == IF a > b THEN a ELSE b

\* Array.from({ length: count }, (_, i) => count - i)
FullTower(count) == [i \in 1 .. count |-> count - (i - 1)]

InitialTowers(count) == [p \in Pegs |-> IF p = 0 THEN FullTower(count) ELSE <<>>]

\* tower.at(-1)
AtLast(t) == IF Len(t) = 0 THEN Undefined ELSE t[Len(t)]

Truthy(x) == x # Undefined /\ x # 0

\* generateMoves whose second recursive call keeps the first call's pegs
RECURSIVE generateMoves_sameSecondCall(_, _, _, _)
generateMoves_sameSecondCall(n, from, to, aux) ==
  IF n = 0 THEN <<>>
  ELSE generateMoves_sameSecondCall(n - 1, from, aux, to)
         \o << <<from, to>> >>
         \o generateMoves_sameSecondCall(n - 1, from, aux, to)

\* `result` is the one array every call pushes to: the value returned is the
\* moves pushed by the first recursive call, then [from, to], then the moves
\* pushed by the second recursive call
RECURSIVE generateMoves(_, _, _, _)
generateMoves(n, from, to, aux) ==
  IF n = 0 THEN <<>>
  ELSE generateMoves(n - 1, from, aux, to)
         \o << <<from, to>> >>
         \o generateMoves(n - 1, aux, to, from)

\* canDrop with the size test turned round
canDrop_sizeFlipped(towers, from, to) ==
  IF from = to THEN FALSE
  ELSE LET fromDisk == AtLast(towers[from])
           toDisk == AtLast(towers[to])
       IN Truthy(fromDisk) /\ (~Truthy(toDisk) \/ fromDisk > toDisk)

canDrop(towers, from, to) ==
  IF from = to THEN FALSE
  ELSE LET fromDisk == AtLast(towers[from])
           toDisk == AtLast(towers[to])
       IN Truthy(fromDisk) /\ (~Truthy(toDisk) \/ fromDisk < toDisk)

\* the move made with shift() in place of pop(): the bottom disk is taken
PopPush_shift(towers, from, to) ==
  LET disk == towers[from][1]
  IN [p \in Pegs |->
        IF p = from THEN Tail(towers[p])
        ELSE IF p = to THEN Append(towers[p], disk)
        ELSE towers[p]]

\* next = towers.map(copy); disk = next[from].pop(); next[to].push(disk)
PopPush(towers, from, to) ==
  LET disk == AtLast(towers[from])
  IN [p \in Pegs |->
        IF p = from THEN SubSeq(towers[p], 1, Len(towers[p]) - 1)
        ELSE IF p = to THEN Append(towers[p], disk)
        ELSE towers[p]]

optimalMoves(s) == Pow2(s.diskCount) - 1

\* isWin that tests that peg 0 is empty
isWin_pegZeroEmpty(s) == Len(s.towers[0]) = 0

isWin(s) == Len(s.towers[2]) = s.diskCount

(* ---------------- the world ---------------- *)

World == [ui |-> ui, autoTimer |-> autoTimer, timers |-> timers,
          shakeTimers |-> shakeTimers]

InitialUi ==
  [diskCount |-> 3,
   towers |-> [p \in Pegs |-> IF p = 0 THEN <<3, 2, 1>> ELSE <<>>],
   selectedTower |-> NULL,
   moves |-> 0,
   shakeTower |-> NULL,
   history |-> <<>>,
   future |-> <<>>,
   autoPlaying |-> FALSE]

\* the id setTimeout returns: one no pending timeout and no ref holds
FreshId(w) ==
  CHOOSE id \in 1 .. (Cardinality(w.timers) + 2) :
    /\ id # w.autoTimer
    /\ \A t \in w.timers : t.id # id

(* ---------------- handlers ---------------- *)

\* stopAutoSolve that forgets clearTimeout
stopAutoSolve_noClear(w) ==
  [w EXCEPT !.autoTimer = NULL,
            !.ui.autoPlaying = FALSE]

stopAutoSolve(w) ==
  [w EXCEPT !.timers = {t \in w.timers : t.id # w.autoTimer},
            !.autoTimer = NULL,
            !.ui.autoPlaying = FALSE]

\* resetGame that forgets stopAutoSolve
resetGame_noStop(w, count) ==
  [w EXCEPT !.ui.diskCount = count,
            !.ui.towers = InitialTowers(count),
            !.ui.moves = 0,
            !.ui.selectedTower = NULL,
            !.ui.shakeTower = NULL,
            !.ui.history = <<>>,
            !.ui.future = <<>>]

resetGame(w, count) ==
  LET w1 == stopAutoSolve(w)
  IN [w1 EXCEPT !.ui.diskCount = count,
                !.ui.towers = InitialTowers(count),
                !.ui.moves = 0,
                !.ui.selectedTower = NULL,
                !.ui.shakeTower = NULL,
                !.ui.history = <<>>,
                !.ui.future = <<>>]

\* moveDisk that counts a rejected move as a move
moveDisk_countsRejected(closure, w, from, to) ==
  IF ~canDrop(closure, from, to)
  THEN [w EXCEPT !.ui.shakeTower = to,
                 !.shakeTimers = Min(MaxShake, w.shakeTimers + 1),
                 !.ui.moves = w.ui.moves + 1]
  ELSE [w EXCEPT !.ui.history = Append(w.ui.history, closure),
                 !.ui.future = <<>>,
                 !.ui.towers = PopPush(closure, from, to),
                 !.ui.moves = w.ui.moves + 1]

\* moveDisk of the render whose towers were `closure`, run on the world w
moveDisk(closure, w, from, to) ==
  IF ~canDrop(closure, from, to)
  THEN [w EXCEPT !.ui.shakeTower = to,
                 !.shakeTimers = Min(MaxShake, w.shakeTimers + 1)]
  ELSE [w EXCEPT !.ui.history = Append(w.ui.history, closure),
                 !.ui.future = <<>>,
                 !.ui.towers = PopPush(closure, from, to),
                 !.ui.moves = w.ui.moves + 1]

handleTowerClick(w, index) ==
  IF w.ui.selectedTower = NULL
  THEN IF Len(w.ui.towers[index]) # 0
       THEN [w EXCEPT !.ui.selectedTower = index]
       ELSE w
  ELSE LET w1 == moveDisk(w.ui.towers, w, w.ui.selectedTower, index)
       IN [w1 EXCEPT !.ui.selectedTower = NULL]

\* undo that tests the history only after it has pushed to the future
undo_guardAfterPush(w) ==
  IF Len(w.ui.history) = 0
  THEN [w EXCEPT !.ui.future = <<w.ui.towers>> \o w.ui.future]
  ELSE LET prev == w.ui.history[Len(w.ui.history)]
       IN [w EXCEPT !.ui.future = <<w.ui.towers>> \o w.ui.future,
                    !.ui.history = SubSeq(w.ui.history, 1, Len(w.ui.history) - 1),
                    !.ui.towers = prev,
                    !.ui.moves = Max(0, w.ui.moves - 1)]

undo(w) ==
  IF Len(w.ui.history) = 0 THEN w
  ELSE LET prev == w.ui.history[Len(w.ui.history)]
       IN [w EXCEPT !.ui.future = <<w.ui.towers>> \o w.ui.future,
                    !.ui.history = SubSeq(w.ui.history, 1, Len(w.ui.history) - 1),
                    !.ui.towers = prev,
                    !.ui.moves = Max(0, w.ui.moves - 1)]

\* redo that pushes the board it restores, not the current one, onto the history
redo_pushesNext(w) ==
  IF Len(w.ui.future) = 0 THEN w
  ELSE LET next == w.ui.future[1]
       IN [w EXCEPT !.ui.history = Append(w.ui.history, next),
                    !.ui.future = Tail(w.ui.future),
                    !.ui.towers = next,
                    !.ui.moves = w.ui.moves + 1]

redo(w) ==
  IF Len(w.ui.future) = 0 THEN w
  ELSE LET next == w.ui.future[1]
       IN [w EXCEPT !.ui.history = Append(w.ui.history, w.ui.towers),
                    !.ui.future = Tail(w.ui.future),
                    !.ui.towers = next,
                    !.ui.moves = w.ui.moves + 1]

\* play(i) of the startAutoSolve call that captured `closure` and `solution`
play(closure, solution, w, i) ==
  IF i >= Len(solution)
  THEN [w EXCEPT !.ui.autoPlaying = FALSE]
  ELSE LET id == FreshId(w)
       IN [w EXCEPT !.autoTimer = id,
                    !.timers = w.timers \cup
                       {[id |-> id, i |-> i, towers |-> closure,
                         solution |-> solution]}]

\* startAutoSolve that does not stop the run in flight
startAutoSolve_noStop(w) ==
  LET solution == generateMoves(w.ui.diskCount, 0, 2, 1)
      w2 == [w EXCEPT !.ui.autoPlaying = TRUE]
  IN play(w.ui.towers, solution, w2, 0)

startAutoSolve(w) ==
  LET w1 == stopAutoSolve(w)
      solution == generateMoves(w.ui.diskCount, 0, 2, 1)
      w2 == [w1 EXCEPT !.ui.autoPlaying = TRUE]
  IN play(w.ui.towers, solution, w2, 0)

\* the callback that schedules the same step again
autoTimeout_sameIndex(w, t) ==
  LET move == t.solution[t.i + 1]
      w1 == [w EXCEPT !.timers = w.timers \ {t}]
      w2 == moveDisk(t.towers, w1, move[1], move[2])
  IN play(t.towers, t.solution, w2, t.i)

\* the callback of the pending timeout t
autoTimeout(w, t) ==
  LET move == t.solution[t.i + 1]
      w1 == [w EXCEPT !.timers = w.timers \ {t}]
      w2 == moveDisk(t.towers, w1, move[1], move[2])
  IN play(t.towers, t.solution, w2, t.i + 1)

\* setTimeout(() => setShakeTower(null), 400)
shakeTimeout(w) ==
  [w EXCEPT !.ui.shakeTower = NULL, !.shakeTimers = w.shakeTimers - 1]

\* key 'a' that resets the game when auto-solve is playing
onKeyA_resets(w) ==
  IF w.ui.autoPlaying THEN resetGame(w, w.ui.diskCount) ELSE startAutoSolve(w)

onKeyA(w) == IF w.ui.autoPlaying THEN stopAutoSolve(w) ELSE startAutoSolve(w)

(* ---------------- actions ---------------- *)

GenIdle == [n |-> 0, from |-> 0, to |-> 2, aux |-> 1, solution |-> <<>>,
            k |-> 0, towers |-> [p \in Pegs |-> <<>>], legal |-> TRUE]

Commit(w, l) ==
  /\ ui' = w.ui
  /\ autoTimer' = w.autoTimer
  /\ timers' = w.timers
  /\ shakeTimers' = w.shakeTimers
  /\ last' = l
  /\ UNCHANGED gen

Init ==
  /\ ui = InitialUi
  /\ autoTimer = NULL
  /\ timers = {}
  /\ shakeTimers = 0
  /\ last = [op |-> "init"]
  /\ events = 0
  /\ gen = GenIdle

TowerClick(index) ==
  Commit(handleTowerClick(World, index),
         IF ui.selectedTower = NULL
         THEN [op |-> "select"]
         ELSE [op |-> "move"])

UndoButton == Commit(undo(World), [op |-> "undo"])

RedoButton == Commit(redo(World), [op |-> "redo"])

AutoSolveButton ==
  Commit(startAutoSolve(World),
         [op |-> IF ui.autoPlaying THEN "restart" ELSE "start"])

KeyA ==
  Commit(onKeyA(World), [op |-> IF ui.autoPlaying THEN "stop" ELSE "start"])

ResetButton == Commit(resetGame(World, ui.diskCount), [op |-> "reset"])

Slider(count) ==
  /\ count # ui.diskCount
  /\ Commit(resetGame(World, count), [op |-> "slider"])

AutoTimeoutOf(t) == Commit(autoTimeout(World, t), [op |-> "auto"])

AutoTimeout == \E t \in timers : AutoTimeoutOf(t)

ShakeTimeout ==
  /\ shakeTimers > 0
  /\ Commit(shakeTimeout(World), [op |-> "unshake"])

\* one more event of a behaviour that is followed for MaxEvents events
Tick ==
  /\ events < MaxEvents
  /\ events' = events + 1

Next ==
  \/ \E index \in Pegs : TowerClick(index) /\ Tick
  \/ UndoButton /\ Tick
  \/ RedoButton /\ Tick
  \/ AutoSolveButton /\ Tick
  \/ KeyA /\ Tick
  \/ ResetButton /\ Tick
  \/ \E count \in MIN_DISKS .. MAX_DISKS : Slider(count) /\ Tick
  \/ AutoTimeout /\ Tick
  \/ ShakeTimeout /\ Tick

Spec == Init /\ [][Next]_vars

(* ------------- an auto-solve run with no other input ------------- *)

\* the slider is moved before anything else is done
SliderFirst(count) ==
  /\ last.op \in {"init", "slider"}
  /\ Slider(count)

\* auto-solve is started on the untouched initial board
StartOnInitialBoard ==
  /\ last.op \in {"init", "slider"}
  /\ AutoSolveButton

NextAuto ==
  \/ \E count \in MIN_DISKS .. MAX_DISKS : SliderFirst(count) /\ UNCHANGED events
  \/ StartOnInitialBoard /\ UNCHANGED events
  \/ AutoTimeout /\ UNCHANGED events
  \/ ShakeTimeout /\ UNCHANGED events

SpecAuto == Init /\ [][NextAuto]_vars

(* ------------- long play on three disks, short history ------------- *)

\* the step leaves a history no longer than MaxLongHistory
Short ==
  /\ Len(ui'.history) <= MaxLongHistory
  /\ UNCHANGED events

NextLong ==
  \/ \E index \in Pegs : TowerClick(index) /\ Short
  \/ UndoButton /\ Short
  \/ RedoButton /\ Short
  \/ AutoSolveButton /\ Short
  \/ KeyA /\ Short
  \/ AutoTimeout /\ Short
  \/ ShakeTimeout /\ Short

SpecLong == Init /\ [][NextLong]_vars

(* ------------- play by clicks and undo on three disks ------------- *)

\* the step leaves a history no longer than MaxPlayHistory
Played ==
  /\ Len(ui'.history) <= MaxPlayHistory
  /\ UNCHANGED events

NextPlay ==
  \/ \E index \in Pegs : TowerClick(index) /\ Played
  \/ UndoButton /\ Len(ui.future) < MaxPlayUndo /\ Played
  \/ ShakeTimeout /\ Played

SpecPlay == Init /\ [][NextPlay]_vars

(* ------------- timeouts that keep firing ------------- *)

\* one more input of a behaviour that is given MaxLiveInputs inputs
Input ==
  /\ events < MaxLiveInputs
  /\ events' = events + 1

\* an auto-solve timeout fires
AutoFires == AutoTimeout /\ UNCHANGED events

NextLive ==
  \/ \E index \in Pegs : TowerClick(index) /\ Input
  \/ UndoButton /\ Input
  \/ RedoButton /\ Input
  \/ AutoSolveButton /\ Input
  \/ KeyA /\ Input
  \/ ResetButton /\ Input
  \/ \E count \in MIN_DISKS .. MAX_DISKS : Slider(count) /\ Input
  \/ AutoFires
  \/ ShakeTimeout /\ UNCHANGED events

\* a pending timeout fires in the end: the browser runs every timer not cleared
SpecLive == Init /\ [][NextLive]_vars /\ WF_vars(AutoFires)

(* ------------- generateMoves run on its own ------------- *)

\* all n disks on one peg, largest at the bottom
StackOn(n, peg) == [p \in Pegs |-> IF p = peg THEN FullTower(n) ELSE <<>>]

GenStart(n, from, to, aux) ==
  [n |-> n, from |-> from, to |-> to, aux |-> aux,
   solution |-> generateMoves(n, from, to, aux),
   k |-> 0, towers |-> StackOn(n, from), legal |-> TRUE]

InitGen ==
  /\ ui = InitialUi
  /\ autoTimer = NULL
  /\ timers = {}
  /\ shakeTimers = 0
  /\ last = [op |-> "init"]
  /\ events = 0
  /\ \E n \in 0 .. MaxGenN : \E from, to, aux \in Pegs :
       /\ from # to /\ from # aux /\ to # aux
       /\ gen = GenStart(n, from, to, aux)

\* the next move of the sequence is validated by canDrop and applied
GenStep ==
  /\ gen.k < Len(gen.solution)
  /\ LET move == gen.solution[gen.k + 1]
         ok == canDrop(gen.towers, move[1], move[2])
     IN gen' = [gen EXCEPT !.k = gen.k + 1,
                           !.legal = gen.legal /\ ok,
                           !.towers = IF ok THEN PopPush(gen.towers, move[1], move[2])
                                      ELSE gen.towers]
  /\ UNCHANGED <<ui, autoTimer, timers, shakeTimers, last, events>>

SpecGen == InitGen /\ [][GenStep]_vars

(* ======================= claims ======================= *)

ValidTower(t, n) ==
  \A i \in 1 .. Len(t) :
    /\ t[i] \in 1 .. n
    /\ i < Len(t) => t[i] > t[i + 1]

ValidBoard(b, n) ==
  /\ \A p \in Pegs : ValidTower(b[p], n)
  /\ \A d \in 1 .. n :
       Cardinality({pi \in Pegs \X (1 .. n) :
                      pi[2] <= Len(b[pi[1]]) /\ b[pi[1]][pi[2]] = d}) = 1
  /\ Len(b[0]) + Len(b[1]) + Len(b[2]) = n

\* C1: in every reachable state the current board, every board of the undo
\* history and every board of the redo future holds each disk 1..diskCount
\* exactly once, every peg strictly decreasing from bottom to top.
C1_BoardsValid ==
  /\ ValidBoard(ui.towers, ui.diskCount)
  /\ \A i \in 1 .. Len(ui.history) : ValidBoard(ui.history[i], ui.diskCount)
  /\ \A i \in 1 .. Len(ui.future) : ValidBoard(ui.future[i], ui.diskCount)

\* an auto-solve step has just run while both the history and the future hold boards
C1_Witness ==
  /\ last.op = "auto"
  /\ Len(ui.history) >= 1
  /\ Len(ui.future) >= 1

RECURSIVE ApplyMoves(_, _)
ApplyMoves(b, ms) ==
  IF ms = <<>> THEN b
  ELSE ApplyMoves(PopPush(b, ms[1][1], ms[1][2]), Tail(ms))

\* the auto-solve run has scheduled its last step and that step has run
AutoRunEnded == autoTimer # NULL /\ timers = {}

\* C2: an auto-solve run started on the initial board, with no other input,
\* has applied the first i moves of generateMoves(diskCount, 0, 2, 1) when its
\* step i is pending, and ends Idle with isWin and moves = 2^diskCount - 1.
C2_AutoSolveSolves ==
  LET solution == generateMoves(ui.diskCount, 0, 2, 1)
  IN /\ \A t \in timers :
          /\ ui.towers = ApplyMoves(StackOn(ui.diskCount, 0), SubSeq(solution, 1, t.i))
          /\ ui.moves = t.i
     /\ AutoRunEnded =>
          /\ ~ui.autoPlaying
          /\ isWin(ui)
          /\ ui.moves = Pow2(ui.diskCount) - 1

\* C3: generateMoves(n, from, to, aux) has 2^n - 1 moves; applied in order to
\* the board with all n disks on peg from, every move passes canDrop, and after
\* the last one all n disks are on peg to.
C3_GenerateMovesSolves ==
  /\ Len(gen.solution) = Pow2(gen.n) - 1
  /\ gen.legal
  /\ gen.k = Len(gen.solution) => gen.towers = StackOn(gen.n, gen.to)

\* a whole sequence for 3 disks has been applied
C3_Witness ==
  /\ gen.n = 3
  /\ gen.k = 7
  /\ gen.towers = StackOn(3, gen.to)

\* the world after the step
WorldNext == [ui |-> ui', autoTimer |-> autoTimer', timers |-> timers',
              shakeTimers |-> shakeTimers']

\* (from, to) is not a legal move on board b
IllegalOn(b, from, to) ==
  \/ from = to
  \/ Len(b[from]) = 0
  \/ Len(b[to]) > 0 /\ b[to][Len(b[to])] < b[from][Len(b[from])]

\* the step left the board, the count and both stacks alone and shook peg `to`
Rejected(to) ==
  /\ ui'.towers = ui.towers
  /\ ui'.moves = ui.moves
  /\ ui'.history = ui.history
  /\ ui'.future = ui.future
  /\ ui'.shakeTower = to

\* C4: a move attempted by a second click or by an auto-solve step that is
\* illegal on the current board is rejected: board, move count, history and
\* future unchanged, shakeTower = to.
C4_IllegalMoveRejected ==
  [][/\ \A index \in Pegs :
          ( /\ ui.selectedTower # NULL
            /\ TowerClick(index)
            /\ IllegalOn(ui.towers, ui.selectedTower, index) )
          => Rejected(index)
     /\ \A t \in timers :
          ( /\ AutoTimeoutOf(t)
            /\ IllegalOn(ui.towers, t.solution[t.i + 1][1], t.solution[t.i + 1][2]) )
          => Rejected(t.solution[t.i + 1][2])]_vars

\* the step was a move, by a click or by an auto-solve step, that was accepted
SuccessfulMove ==
  /\ last'.op \in {"move", "auto"}
  /\ ui'.moves = ui.moves + 1

\* C5: undo right after a successful move (click or auto-solve step) gives
\* back the board that was current just before the move and a move count one
\* lower than after the move, never below 0.
C5_UndoRestoresPreMove ==
  [][SuccessfulMove =>
       LET u == undo(WorldNext).ui
       IN /\ u.towers = ui.towers
          /\ u.moves = ui'.moves - 1
          /\ u.moves >= 0]_vars

\* C6: from a state with a non-empty history, undo then redo gives back the
\* board, the move count, the history and the future of before the undo.
C6_UndoRedoIdentity ==
  [][(last'.op = "undo" /\ Len(ui.history) > 0) =>
       LET r == redo(WorldNext).ui
       IN /\ r.towers = ui.towers
          /\ r.moves = ui.moves
          /\ r.history = ui.history
          /\ r.future = ui.future]_vars

\* a redo has run (so an undo before it) and has left a history
C6_Witness ==
  /\ last.op = "redo"
  /\ Len(ui.history) > 0
  /\ ui.future = <<>>

\* C7: an auto-solve step runs only from a state in which auto-solve was
\* started and not stopped since (stopAutoSolve leaves autoTimer null and
\* autoPlaying false, only startAutoSolve undoes that).
C7_NoStepAfterStop ==
  [][last'.op = "auto" => (autoTimer # NULL /\ ui.autoPlaying)]_vars

\* auto-solve was stopped by the key after some of its steps had moved disks
C7_Witness ==
  /\ last.op = "stop"
  /\ Len(ui.history) > 0
  /\ timers = {}

\* C8: a successful move (click or auto-solve step) appends the board that was
\* current just before it to the history and empties the future, so that redo
\* right after it changes nothing.
C8_MoveRecordsHistory ==
  [][SuccessfulMove =>
       /\ ui'.history = Append(ui.history, ui.towers)
       /\ ui'.future = <<>>
       /\ redo(WorldNext) = WorldNext]_vars

\* C9: reset and every disk-count change leave all N disks on peg 0, move
\* count 0, nothing selected, empty history and future, auto-play Idle and no
\* step pending, N being the chosen count in 3..7 (the current one for reset).
C9_ResetState ==
  [][last'.op \in {"reset", "slider"} =>
       /\ ui'.diskCount \in MIN_DISKS .. MAX_DISKS
       /\ last'.op = "reset" => ui'.diskCount = ui.diskCount
       /\ ui'.towers = StackOn(ui'.diskCount, 0)
       /\ ui'.moves = 0
       /\ ui'.selectedTower = NULL
       /\ ui'.history = <<>>
       /\ ui'.future = <<>>
       /\ ~ui'.autoPlaying
       /\ timers' = {}]_vars

\* the slider was moved to 7 after a move had been rejected
C9_Witness ==
  /\ last.op = "slider"
  /\ ui.diskCount = 7
  /\ shakeTimers > 0

\* C10: undo on an empty history and redo on an empty future change neither
\* the board, the move count, the history, the future, the selected peg nor
\* the auto-play state.
C10_EmptyUndoRedoNoOp ==
  [][( \/ last'.op = "undo" /\ Len(ui.history) = 0
       \/ last'.op = "redo" /\ Len(ui.future) = 0 ) =>
       /\ ui'.towers = ui.towers
       /\ ui'.moves = ui.moves
       /\ ui'.history = ui.history
       /\ ui'.future = ui.future
       /\ ui'.selectedTower = ui.selectedTower
       /\ ui'.autoPlaying = ui.autoPlaying
       /\ autoTimer' = autoTimer
       /\ timers' = timers]_vars

\* undo has run on an empty history while auto-solve was playing
C10_Witness ==
  /\ last.op = "undo"
  /\ ui.history = <<>>
  /\ ui.future = <<>>
  /\ ui.autoPlaying

\* C11: in every reachable state isWin holds exactly when pegs 0 and 1 are
\* empty and peg 2 is the full stack diskCount, ..., 1 from bottom to top.
C11_WinIffSolved ==
  isWin(ui) <=> ( /\ ui.towers[0] = <<>>
                  /\ ui.towers[1] = <<>>
                  /\ ui.towers[2] = FullTower(ui.diskCount) )

\* the puzzle is solved
C11_Witness ==
  /\ ui.towers = StackOn(ui.diskCount, 2)
  /\ Len(ui.towers[2]) = 3

\* C12: in no reachable state is isWin true with a move count below
\* 2^diskCount - 1.
C12_WinNeedsOptimalMoves == isWin(ui) => ui.moves >= optimalMoves(ui)

\* b2 is b with the top disk of peg from put on top of peg to, nothing else moved
TopMoved(b, b2, from, to) ==
  /\ Len(b[from]) > 0
  /\ b2[from] = SubSeq(b[from], 1, Len(b[from]) - 1)
  /\ b2[to] = b[to] \o <<b[from][Len(b[from])]>>
  /\ \A p \in Pegs \ {from, to} : b2[p] = b[p]

Board3(a, b, c) == [p \in Pegs |-> IF p = 0 THEN a ELSE IF p = 1 THEN b ELSE c]

ScenarioMoves ==
  << <<0, 2>>, <<0, 1>>, <<2, 1>>, <<0, 2>>, <<1, 0>>, <<1, 2>>, <<0, 2>> >>

ScenarioBoards ==
  << Board3(<<3, 2, 1>>, <<>>, <<>>),
     Board3(<<3, 2>>, <<>>, <<1>>),
     Board3(<<3>>, <<2>>, <<1>>),
     Board3(<<3>>, <<2, 1>>, <<>>),
     Board3(<<>>, <<2, 1>>, <<3>>),
     Board3(<<1>>, <<2>>, <<3>>),
     Board3(<<1>>, <<>>, <<3, 2>>),
     Board3(<<>>, <<>>, <<3, 2, 1>>) >>

\* C13: a second click that changes the board or the move count moves exactly
\* the top disk of the selected peg onto the clicked peg and adds 1 to the
\* move count; the k-th click pair of the seven-move scenario, made on the
\* scenario's k-th board with k - 1 moves counted, gives its next board with k
\* moves counted, the seventh with isWin.
C13_ManualMoveEffect ==
  [][/\ \A index \in Pegs :
          ( /\ ui.selectedTower # NULL
            /\ TowerClick(index)
            /\ (ui'.towers # ui.towers \/ ui'.moves # ui.moves) )
          => /\ TopMoved(ui.towers, ui'.towers, ui.selectedTower, index)
             /\ ui'.moves = ui.moves + 1
     /\ \A k \in 1 .. 7 :
          ( /\ ui.towers = ScenarioBoards[k]
            /\ ui.moves = k - 1
            /\ ui.selectedTower = ScenarioMoves[k][1]
            /\ TowerClick(ScenarioMoves[k][2]) )
          => /\ ui'.towers = ScenarioBoards[k + 1]
             /\ ui'.moves = k
             /\ k = 7 => isWin(ui')]_vars

\* the seven moves of the scenario have been made by clicks, one after the other
C13_Witness ==
  /\ last.op = "move"
  /\ ui.history = SubSeq(ScenarioBoards, 1, 7)
  /\ ui.towers = ScenarioBoards[8]
  /\ ui.moves = 7
  /\ isWin(ui)

\* C14: stopping auto-solve leaves the board, the move count, the history and
\* the future (and the rest of the state) as the steps already run left them
\* and makes auto-play Idle, with no step pending.
C14_StopKeepsBoard ==
  [][last'.op = "stop" =>
       /\ ui' = [ui EXCEPT !.autoPlaying = FALSE]
       /\ timers' = {}
       /\ autoTimer' = NULL]_vars

\* auto-solve was stopped after two of its steps had been accepted
C14_Witness ==
  /\ last.op = "stop"
  /\ ui.moves >= 2
  /\ ~ui.autoPlaying

\* C15: with the timeouts firing, auto-play that is Playing becomes Idle again,
\* whatever inputs come in between and whether or not its steps are accepted,
\* and a run has no step beyond its 2^diskCount - 1 moves.
C15_AutoPlayEnds ==
  /\ [](\A t \in timers :
          /\ Len(t.solution) = Pow2(ui.diskCount) - 1
          /\ t.i < Pow2(ui.diskCount) - 1)
  /\ (ui.autoPlaying ~> ~ui.autoPlaying)

\* a run has ended by itself after a step of it was rejected and a move was
\* made by clicks
C15_Witness ==
  /\ AutoRunEnded
  /\ ~ui.autoPlaying
  /\ last.op = "auto"
  /\ events >= 2
  /\ ui.moves < optimalMoves(ui)

\* C16: starting auto-solve while one is playing cancels the earlier run and
\* restarts from the first move of the sequence: in every reachable state at
\* most one auto-solve step is pending, and a step is pending exactly when
\* auto-play is playing.
C16_SinglePendingStep ==
  /\ [](/\ Cardinality(timers) <= 1
        /\ (timers # {} <=> ui.autoPlaying))
  /\ [][last'.op = "restart" =>
          /\ ui.autoPlaying
          /\ ui'.autoPlaying
          /\ Cardinality(timers') = 1
          /\ \A t \in timers' :
                /\ t.id = autoTimer'
                /\ t.i = 0
                /\ t.solution = generateMoves(ui.diskCount, 0, 2, 1)]_vars

\* a restart issued while a run is playing, on a board that has been played on
C16_Witness ==
  /\ last.op = "restart"
  /\ ui.autoPlaying
  /\ ui.moves >= 1
  /\ \E t \in timers : t.i = 0

\* C17: a successful manual move, undo or redo made while auto-solve is
\* playing is not lost: every auto-solve step validates its move against, and
\* derives the new board from, the board that is current when the step fires,
\* not the board that was current when auto-solve was started.
C17_StepUsesCurrentBoard ==
  [][\A t \in timers :
       AutoTimeoutOf(t) =>
         LET from == t.solution[t.i + 1][1]
             to == t.solution[t.i + 1][2]
         IN ui'.towers = IF IllegalOn(ui.towers, from, to)
                         THEN ui.towers
                         ELSE PopPush(ui.towers, from, to)]_vars

\* C18: in every reachable state the move count equals the length of the
\* undo history (so it is never negative), under any sequence of moves,
\* rejected moves, undo, redo, reset, disk-count change and auto-solve steps.
C18_MovesIsHistoryLength ==
  /\ ui.moves = Len(ui.history)
  /\ ui.moves >= 0

\* an undo back to count 0 after a rejected move and an accepted one
C18_Witness ==
  /\ last.op = "undo"
  /\ ui.moves = 0
  /\ Len(ui.future) >= 1
  /\ ui.shakeTower # NULL

\* C19: whenever a peg is selected, that peg is non-empty on the current
\* board: a first click on an empty peg selects nothing, a second click always
\* clears the selection whether the move was accepted or rejected, and no
\* undo, redo or auto-solve step leaves a selected peg empty.
C19_SelectedPegNonEmpty ==
  /\ [](ui.selectedTower # NULL => Len(ui.towers[ui.selectedTower]) > 0)
  /\ [][ /\ (last'.op = "select" /\ ui'.selectedTower = NULL)
               => \E index \in Pegs : Len(ui.towers[index]) = 0
         /\ (last'.op = "move") => (ui'.selectedTower = NULL)
         /\ (last'.op \in {"undo", "redo", "auto"} /\ ui'.selectedTower # NULL)
               => Len(ui'.towers[ui'.selectedTower]) > 0 ]_vars

====
